---- MODULE Spec2Model ----
(***************************************************************************)
(* The paginated harvest engine of scraping_tp: CsvCreatorFactory, the     *)
(* template method CsvCreator.create (_setUp, _write_csv, _tearDown, with  *)
(* _on_error as the only error boundary) and its two concrete creators,    *)
(* RequestsCsvCreator and SeleniumCsvCreator.                              *)
(*                                                                         *)
(* One process runs main(): it builds the creator from kwargs, calls       *)
(* create() and exits.  The upstream feed, the file system, the browser    *)
(* driver and the transport are the environment: the feed is a fixed but   *)
(* unknown function of (area, page), discovered page by page; every        *)
(* environment call may raise.                                             *)
(***************************************************************************)
EXTENDS Integers, Sequences, FiniteSets, TLC

\* ------------------------------------------------------------------ bounds
MaxAreas == 2      \* longest configured area list
MaxPage == 2       \* pages of an area on which the feed holds listings
MaxRuns == 2       \* successive invocations of the program

\* ------------------------------------------------------- program constants
PER_PAGE == 20     \* full-page threshold

CSV_HEADER == <<"name", "tel", "address", "URL", "keyword", "area", "datetime">>

AreaNames == {"a", "b"}
Libs == {"requests", "selenium", "curl"}
Browsers == {"chrome", "firefox", "safari"}

RECURSIVE SeqsUpTo(_, _)
SeqsUpTo(S, n) ==
  IF n = 0 THEN {<<>>}
  ELSE LET shorter == SeqsUpTo(S, n - 1)
       IN shorter \cup {Append(s, x) : s \in {t \in shorter : Len(t) = n - 1}, x \in S}

\* The session arguments handed to CsvCreatorFactory.create_csv_creator.
\* interval: whether the key 'interval' is among them (get_args of
\* scraping_tp.py sets none; the test fixture does).
\* local: whether uri is the fixture locator file:///opt/python/.../static/html/.
\* retry: the --retry count (default 3), read by no code; another count is
\* given to runs over the single area "a" only.
\* The two area names are interchangeable, so a list starts with "a"; --browser
\* defaults to chrome and is read by the selenium creator only.  The browsers
\* differ in the driver they start and in nothing else, and the locator in
\* the fixture directory only, so lists of two area names are run with
\* chrome against the remote locator.
AreaLists == {as \in SeqsUpTo(AreaNames, MaxAreas) : as = <<>> \/ as[1] = "a"}

TwoNames(as) == \E i \in 1..Len(as) : as[i] # "a"

KwargsSet ==
  { kw \in [lib : Libs, browser : Browsers, areas : AreaLists,
            interval : BOOLEAN, local : BOOLEAN, retry : {0, 3}] :
      /\ kw.retry # 3 => (kw.areas = <<"a">> /\ kw.interval /\ ~kw.local
                            /\ kw.browser = "chrome" /\ kw.lib # "curl")
      /\ kw.lib # "selenium" => kw.browser = "chrome"
      /\ kw.browser = "firefox" => ~kw.local
      /\ TwoNames(kw.areas) => ~kw.local /\ kw.browser # "firefox" }

\* -------------------------------------------------------------- the feed
\* One page of the upstream feed: an optional application/ld+json block of
\* jn entries, and listing containers in the top and the bottom zone.  bad
\* says what is wrong with the listing at position BadPos of the block and
\* of the top zone ("none": nothing).
BadPos == 2
BadKinds == {"none", "empty", "absent"}

Page(j, n, t, b, kind) ==
  [json |-> j, jn |-> n, top |-> t, bottom |-> b, bad |-> kind]

\* Beyond MaxPage the feed holds nothing: no block, no container.
EmptyPage == Page(FALSE, 0, 0, 0, "none")

PageContents ==
       \* a block of a full page of entries, beside a full page of containers
       {Page(TRUE, PER_PAGE, PER_PAGE, 1, "none")}
       \* a block with a bad entry, beside a few containers
  \cup {Page(TRUE, PER_PAGE, BadPos, 0, kind) : kind \in BadKinds \ {"none"}}
       \* a block whose list is empty, beside a few containers
  \cup {Page(TRUE, 0, BadPos, 0, "none")}
       \* no block: a full top zone
  \cup {Page(FALSE, 0, PER_PAGE, 0, "none")}
       \* no block: a short page
  \cup {Page(FALSE, 0, BadPos, 1, kind) : kind \in BadKinds}
       \* no block and no container
  \cup {EmptyPage}

\* A page of the feed not fetched yet.
Unknown == [json |-> FALSE, jn |-> 0, top |-> 0, bottom |-> 0, bad |-> "unknown"]

VARIABLES
  kwargs,          \* the session arguments of the program (never changed)
  run,             \* number of the current invocation
  pc,              \* position of the process
  exitStatus,      \* exit status of the last finished process, -1 before
  isfile, rows,    \* os.path.isfile(self.filename) and the file's rows
  isdir,           \* os.path.isdir('scraping_tp/static/html')
  driver,          \* self.driver: "none", "open" (session alive), "closed"
  areaIdx,         \* position in self.areas of the area being processed
  page, company_count, row_count,   \* locals of _write_csv
  cur,             \* content of the page being extracted
  strategy,        \* "json", "html" (requests), "top", "bottom" (selenium)
  k,               \* position in the element list of the next element
  feed,            \* the pages of the feed seen so far
  now,             \* the clock read by _now(), in units of one process start
  slept,           \* number of time.sleep(self.interval) calls of this run
  errKind,         \* "none", or the kind of the exception create() caught
  requested,       \* the page requests of this run, each with the number of
                   \* rows appended for it so far and its offset:
                   \* <<areaIdx, page, n, from_param>>
  written,         \* origin of each row appended in this run,
                   \* <<areaIdx, page, strategy, k>>
  prev,            \* how the previous run ended, and when this one started
  procs,           \* two processes running at once: the state of each
  sharedDir,       \* os.path.isdir('scraping_tp/static/html') as they see it
  loc              \* a local base locator and what is resolved from it

\* The state of one run of the program.
runVars == <<kwargs, run, pc, exitStatus, isfile, rows, isdir, driver, areaIdx,
             page, company_count, row_count, cur, strategy, k, feed, now, slept,
             errKind, requested, written, prev>>

\* The state of two runs side by side, and of a locator resolution.
pairVars == <<procs, sharedDir>>
locVars == <<loc>>

vars == <<runVars, pairVars, locVars>>

\* The artifact an earlier, unrelated run may have left at the output path.
OldRows == <<CSV_HEADER, <<"N", <<"old", 0, 0>>, "addr", "url", "kw", "a", 0>>>>

\* No pair of processes, no locator under resolution.
NoPair == procs = <<>> /\ sharedDir = FALSE
NoLoc == loc = [stage |-> "idle"]

InitRun ==
  /\ kwargs \in KwargsSet
  /\ run = 1
  /\ pc = "main"
  /\ exitStatus = -1
  /\ isfile \in BOOLEAN
  /\ rows = IF isfile THEN OldRows ELSE <<>>
  /\ isdir = FALSE
  /\ driver = "none"
  /\ areaIdx = 1
  /\ page = 1
  /\ company_count = 0
  /\ row_count = 0
  /\ cur = EmptyPage
  /\ strategy = "none"
  /\ k = 1
  /\ feed = [x \in AreaNames \X (1..MaxPage) |-> Unknown]
  /\ now = 1
  /\ slept = 0
  /\ errKind = "none"
  /\ requested = <<>>
  /\ written = <<>>
  /\ prev = [ended |-> FALSE, ok |-> FALSE, isfile |-> FALSE, rows |-> <<>>,
             start |-> 1]

Init == InitRun /\ NoPair /\ NoLoc

\* ------------------------------------------------- construction and main
\* Mutant: both valid selections build the selenium creator.
CreatorForOneClass(lib) ==
  IF lib \in {"requests", "selenium"} THEN "SeleniumCsvCreator" ELSE "ValueError"

\* CsvCreatorFactory.create_csv_creator: the class it returns, or ValueError.
CreatorFor(lib) ==
  IF lib = "requests" THEN "RequestsCsvCreator"
  ELSE IF lib = "selenium" THEN "SeleniumCsvCreator"
  ELSE "ValueError"

creator == CreatorFor(kwargs.lib)

\* CsvCreator.__init__ reads kwargs['interval'] (and six more keys that every
\* caller sets): KeyError when it is missing.
InitRaises(kw) == ~kw.interval

\* The keys of the dictionary get_args() of scraping_tp.py returns: the five
\* parsed arguments and the four settings.
get_args_keys ==
  {"keyword", "lib", "browser", "timeout", "retry",
   "filename", "encoding", "uri", "areas"}

\* The session arguments a run started from the command line gets: --lib
\* and --browser among their choices, --retry any count, and the key
\* 'interval' given if get_args gives it.
FromCli(kw) ==
  /\ kw.lib \in {"requests", "selenium"}
  /\ kw.browser \in {"chrome", "firefox"}
  /\ kw.interval <=> "interval" \in get_args_keys

\* Exit status of the process: main() returned (0) or an exception left it (1).
ExitStatus(uncaught) == IF uncaught THEN 1 ELSE 0

\* create() returns without an exception, whichever branch it took, so main()
\* returns and the process exits.
Return ==
  /\ pc' = "exited"
  /\ exitStatus' = ExitStatus(FALSE)

\* What every exception caught by create() does to the control state.
Raise(kind) ==
  /\ pc' = "on_error"
  /\ errKind' = kind

\* main(): get_args, then the factory builds the creator.  An exception here
\* is outside create() and ends the process.
Main ==
  /\ pc = "main"
  /\ IF creator = "ValueError" \/ InitRaises(kwargs)
       THEN /\ pc' = "exited"
            /\ exitStatus' = ExitStatus(TRUE)
       ELSE /\ pc' = "setUp"
            /\ UNCHANGED exitStatus
  /\ UNCHANGED <<pairVars, locVars,
                 kwargs, run, isfile, rows, isdir, driver, areaIdx, page,
                 company_count, row_count, cur, strategy, k, feed, now, slept,
                 errKind, requested, written, prev>>

\* ------------------------------------------------------------------ _setUp
\* RequestsCsvCreator._setUp: remove the artifact, unpack the fixtures when
\* the locator is the local one (unpack_archive may raise).
SetUpRequests ==
  /\ pc = "setUp"
  /\ creator = "RequestsCsvCreator"
  /\ isfile' = FALSE
  /\ rows' = <<>>
  /\ \E unpacked \in BOOLEAN :
       IF kwargs.local /\ ~unpacked
         THEN Raise("setup") /\ UNCHANGED isdir
         ELSE /\ pc' = "header"
              /\ isdir' = (isdir \/ kwargs.local)
              /\ UNCHANGED errKind
  /\ UNCHANGED <<pairVars, locVars,
                 kwargs, run, exitStatus, driver, areaIdx, page,
                 company_count, row_count, cur, strategy, k, feed, now, slept,
                 requested, written, prev>>

\* SeleniumCsvCreator._setUp: start the browser (ValueError for an unknown
\* one, or the driver fails to start), and only then remove the artifact and
\* unpack the fixtures.
SetUpSelenium ==
  /\ pc = "setUp"
  /\ creator = "SeleniumCsvCreator"
  /\ \E started \in BOOLEAN, unpacked \in BOOLEAN :
       IF kwargs.browser \notin {"chrome", "firefox"}
         THEN Raise("config") /\ UNCHANGED <<driver, isfile, rows, isdir>>
       ELSE IF ~started
         THEN Raise("setup") /\ UNCHANGED <<driver, isfile, rows, isdir>>
       ELSE /\ driver' = "open"
            /\ isfile' = FALSE
            /\ rows' = <<>>
            /\ IF kwargs.local /\ ~unpacked
                 THEN Raise("setup") /\ UNCHANGED isdir
                 ELSE /\ pc' = "header"
                      /\ isdir' = (isdir \/ kwargs.local)
                      /\ UNCHANGED errKind
  /\ UNCHANGED <<pairVars, locVars,
                 kwargs, run, exitStatus, areaIdx, page, company_count,
                 row_count, cur, strategy, k, feed, now, slept, requested,
                 written, prev>>

\* ------------------------------------------------------------- _write_csv
\* open(self.filename, 'w'): the file is created or truncated.
OpenW(old) == <<>>

\* Mutant: no header row is written.
WithoutHeader(f) == OpenW(f)

\* 'writer.writerow(self.CSV_HEADER)' into the file just opened.
WithHeader(f) == Append(OpenW(f), CSV_HEADER)

\* Both _write_csv start alike: page = 1, company_count = 0, then the header
\* is written through open(..., 'w').  open may raise (nothing created) and
\* so may writerow (the truncated file is left).
WriteHeader ==
  /\ pc = "header"
  /\ page' = 1
  /\ company_count' = 0
  /\ areaIdx' = 1
  /\ \E outcome \in {"ok", "open", "write"} :
       CASE outcome = "ok" ->
              /\ isfile' = TRUE
              /\ rows' = WithHeader(rows)
              /\ pc' = IF Len(kwargs.areas) = 0 THEN "tearDown" ELSE "fetch"
              /\ UNCHANGED errKind
         [] outcome = "open" ->
              /\ Raise("sink")
              /\ UNCHANGED <<isfile, rows>>
         [] outcome = "write" ->
              /\ Raise("sink")
              /\ isfile' = TRUE
              /\ rows' = OpenW(rows)
  /\ UNCHANGED <<pairVars, locVars,
                 kwargs, run, exitStatus, isdir, driver, row_count, cur,
                 strategy, k, feed, now, slept, requested, written, prev>>

area == kwargs.areas[areaIdx]

\* The content the feed serves for a request: what it served before for the
\* same area and page, any page content the first time.
Served(a, p) ==
  IF p > MaxPage THEN {EmptyPage}
  ELSE IF feed[<<a, p>>] # Unknown THEN {feed[<<a, p>>]}
  ELSE PageContents

Seen(a, p, c) ==
  IF p > MaxPage THEN feed ELSE [feed EXCEPT ![<<a, p>>] = c]

\* Mutant: the block is never found.
UseJsonNever(c) == FALSE

\* soup.find('script', type='application/ld+json') decides the extractor of
\* the requests creator.
UseJson(c) == c.json

\* len() of the element list an extractor walks.
ElementCount(c, st) ==
  CASE st = "json" -> c.jn
    [] st = "html" -> c.top + c.bottom
    [] st = "top" -> c.top
    [] st = "bottom" -> c.bottom
    [] OTHER -> 0

\* What is wrong with the i-th element of the list.
EntryKind(c, st, i) ==
  IF i = BadPos /\ st \in {"json", "html", "top"} THEN c.bad ELSE "ok"

\* The company-name column an extractor computes for an element, or "raise":
\*   json:  item['name'] (KeyError), then 'if not company_name' (ValueError);
\*   html:  'if not company_name_element' (ValueError), then its .text;
\*   top, bottom: find_element (NoSuchElementException), then its .text.
CompanyName(st, kind) ==
  CASE kind = "absent" -> "raise"
    [] kind = "empty" -> IF st = "json" THEN "raise" ELSE ""
    [] OTHER -> "N"

\* Mutant: the time is appended where the keyword belongs.
MakeRowTimeAsKeyword(name, tel, a, t) == <<name, tel, "addr", "url", t, a, t>>

\* The row an extractor appends: name, phone, address, URL, keyword, area and
\* self._now_str().
MakeRow(name, tel, a, t) == <<name, tel, "addr", "url", "kw", a, t>>

\* 'from_param = (page - 1) * PER_PAGE': the offset a request carries.
from_param(p) == (p - 1) * PER_PAGE

\* Mutant: the row is held back, not written.
AppendRowBuffered(f, row) == f

\* 'with open(self.filename, 'a', ...) as file: writer.writerow(row)': the
\* row is in the file when the with block is left.
AppendRow(f, row) == Append(f, row)

\* RequestsCsvCreator._write_csv, top of the while loop: compute the locator,
\* fetch (the transport may raise), pick the extractor.
FetchRequests ==
  /\ pc = "fetch"
  /\ creator = "RequestsCsvCreator"
  /\ page <= MaxPage + 2
  /\ requested' = Append(requested, <<areaIdx, page, 0, from_param(page)>>)
  /\ \E got \in BOOLEAN, c \in Served(area, page) :
       IF ~got
         THEN /\ Raise("fetch")
              /\ UNCHANGED <<cur, strategy, k, row_count, feed>>
         ELSE /\ feed' = Seen(area, page, c)
              /\ cur' = c
              /\ strategy' = IF UseJson(c) THEN "json" ELSE "html"
              /\ k' = 1
              /\ row_count' = 0
              /\ pc' = "extract"
              /\ UNCHANGED errKind
  /\ UNCHANGED <<pairVars, locVars,
                 kwargs, run, exitStatus, isfile, rows, isdir, driver,
                 areaIdx, page, company_count, now, slept, written, prev>>

\* SeleniumCsvCreator._write_csv, top of the while loop: driver.get (may
\* raise), wait.until a top-zone container is visible (TimeoutException when
\* the page has none), sleep, find the top-zone elements.
FetchSelenium ==
  /\ pc = "fetch"
  /\ creator = "SeleniumCsvCreator"
  /\ page <= MaxPage + 2
  /\ requested' = Append(requested, <<areaIdx, page, 0, from_param(page)>>)
  /\ \E got \in BOOLEAN, c \in Served(area, page) :
       IF ~got
         THEN /\ Raise("fetch")
              /\ UNCHANGED <<cur, strategy, k, row_count, feed, slept>>
       ELSE IF c.top = 0
         THEN /\ Raise("FetchTimeout")
              /\ feed' = Seen(area, page, c)
              /\ cur' = c
              /\ UNCHANGED <<strategy, k, row_count, slept>>
       ELSE /\ feed' = Seen(area, page, c)
            /\ cur' = c
            /\ slept' = slept + 1
            /\ strategy' = "top"
            /\ k' = 1
            /\ row_count' = 0
            /\ pc' = "extract"
            /\ UNCHANGED errKind
  /\ UNCHANGED <<pairVars, locVars,
                 kwargs, run, exitStatus, isfile, rows, isdir, driver,
                 areaIdx, page, company_count, now, written, prev>>

\* One pass of an extractor's for loop: read the fields of element k, then
\* append the row through open(..., 'a') (which may raise).  The requests
\* extractors count the rows as they go; the selenium loops add len(elements)
\* when the loop ends.
ExtractElement ==
  /\ pc = "extract"
  /\ k <= ElementCount(cur, strategy)
  /\ LET kind == EntryKind(cur, strategy, k)
         name == CompanyName(strategy, kind)
     IN \E appended \in BOOLEAN :
          IF name = "raise"
            THEN /\ Raise("extract")
                 /\ UNCHANGED <<isfile, rows, k, row_count, written, requested>>
          ELSE IF ~appended
            THEN /\ Raise("sink")
                 /\ UNCHANGED <<isfile, rows, k, row_count, written, requested>>
          ELSE /\ isfile' = TRUE
               /\ rows' = AppendRow(rows, MakeRow(name, <<strategy, page, k>>,
                                                    area, now))
               /\ written' = Append(written, <<areaIdx, page, strategy, k>>)
               /\ requested' = [requested EXCEPT ![Len(requested)][3] = @ + 1]
               /\ k' = k + 1
               /\ row_count' = IF strategy \in {"json", "html"}
                                 THEN row_count + 1 ELSE row_count
               /\ UNCHANGED <<pc, errKind>>
  /\ UNCHANGED <<pairVars, locVars,
                 kwargs, run, exitStatus, isdir, driver, areaIdx, page,
                 company_count, cur, strategy, feed, now, slept, prev>>

\* The end of an extractor's loop: the requests extractors return their
\* count; the top-zone loop adds its len(elements) and goes on with the
\* bottom zone; the bottom-zone loop adds its len(elements).
EndLoop ==
  /\ pc = "extract"
  /\ k > ElementCount(cur, strategy)
  /\ IF strategy = "top"
       THEN /\ row_count' = row_count + ElementCount(cur, "top")
            /\ strategy' = "bottom"
            /\ k' = 1
            /\ UNCHANGED pc
       ELSE /\ row_count' = IF strategy = "bottom"
                              THEN row_count + ElementCount(cur, "bottom")
                              ELSE row_count
            /\ pc' = "decide"
            /\ UNCHANGED <<strategy, k>>
  /\ UNCHANGED <<pairVars, locVars,
                 kwargs, run, exitStatus, isfile, rows, isdir, driver,
                 areaIdx, page, company_count, cur, feed, now, slept, errKind,
                 requested, written, prev>>

\* Mutant: no page is the last one of its area.
IsShortPageNever(rc, total) == FALSE

\* Mutant: the running count of the area is compared, not the page's.
IsShortPageByTotal(rc, total) == total < PER_PAGE

\* Mutant: the page number is not reset.
PageAfterAreaDoneKept(p) == p

\* Mutant: the running count is carried into the next area.
CountAfterAreaDoneKept(c) == c

\* Mutant: a page number is skipped.
NextPageSkips(p) == p + 2

\* Mutant: no pause when the page ends the area.
PausedOnFullPageOnly(s, short) == IF short THEN s ELSE s + 1

\* 'if row_count < PER_PAGE': the page was the last one of the area.
IsShortPage(rc, total) == rc < PER_PAGE

\* 'page = 1' when the area is done.
PageAfterAreaDone(p) == 1

\* 'company_count = 0' when the area is done, c being the count reported.
CountAfterAreaDone(c) == 0

\* 'page += 1' after a full page.
NextPage(p) == p + 1

\* time.sleep(self.interval), in the branch of the short page and after the
\* full page alike: the number of pauses so far.
Paused(s, short) == s + 1

\* The end of the while loop body, alike in both creators: a short page ends
\* the area (counters reset, sleep, next area or the end of _write_csv), a
\* full one asks for the next page (sleep).
Decide ==
  /\ pc = "decide"
  /\ slept' = Paused(slept, IsShortPage(row_count, company_count + row_count))
  /\ IF IsShortPage(row_count, company_count + row_count)
       THEN /\ page' = PageAfterAreaDone(page)
            /\ company_count' = CountAfterAreaDone(company_count + row_count)
            /\ areaIdx' = areaIdx + 1
            /\ pc' = IF areaIdx + 1 > Len(kwargs.areas) THEN "tearDown" ELSE "fetch"
       ELSE /\ page' = NextPage(page)
            /\ company_count' = company_count + row_count
            /\ pc' = "fetch"
            /\ UNCHANGED areaIdx
  /\ UNCHANGED <<pairVars, locVars,
                 kwargs, run, exitStatus, isfile, rows, isdir, driver,
                 row_count, cur, strategy, k, feed, now, errKind, requested,
                 written, prev>>

\* --------------------------------------------------------------- _tearDown
\* RequestsCsvCreator._tearDown: remove the fixture directory when it is
\* there (rmtree may raise).
TearDownRequests ==
  /\ pc = "tearDown"
  /\ creator = "RequestsCsvCreator"
  /\ \E removed \in BOOLEAN :
       IF isdir /\ ~removed
         THEN Raise("teardown") /\ UNCHANGED <<isdir, exitStatus>>
         ELSE /\ isdir' = FALSE
              /\ Return
              /\ UNCHANGED errKind
  /\ UNCHANGED <<pairVars, locVars,
                 kwargs, run, isfile, rows, driver, areaIdx,
                 page, company_count, row_count, cur, strategy, k, feed,
                 now, slept, requested, written, prev>>

\* SeleniumCsvCreator._tearDown: the same, then driver.close() and
\* driver.quit() end the browsing session (close may raise).
TearDownSelenium ==
  /\ pc = "tearDown"
  /\ creator = "SeleniumCsvCreator"
  /\ \E removed \in BOOLEAN, closed \in BOOLEAN :
       IF isdir /\ ~removed
         THEN Raise("teardown") /\ UNCHANGED <<isdir, driver, exitStatus>>
       ELSE IF ~closed
         THEN /\ Raise("teardown")
              /\ isdir' = FALSE
              /\ UNCHANGED <<driver, exitStatus>>
       ELSE /\ isdir' = FALSE
            /\ driver' = "closed"
            /\ Return
            /\ UNCHANGED errKind
  /\ UNCHANGED <<pairVars, locVars,
                 kwargs, run, isfile, rows, areaIdx, page,
                 company_count, row_count, cur, strategy, k, feed, now, slept,
                 requested, written, prev>>

\* ---------------------------------------------------------------- _on_error
\* Mutant: the artifact is not removed.
IsFileAfterOnErrorKept(exists) == exists

\* 'if os.path.isfile(self.filename): os.remove(self.filename)': whether the
\* file is there afterwards.
IsFileAfterOnError(exists) == FALSE

\* The except branch of create(): print the traceback, _on_error; then
\* create() returns, main() returns and the process exits.
OnError ==
  /\ pc = "on_error"
  /\ isfile' = IsFileAfterOnError(isfile)
  /\ rows' = IF isfile' THEN rows ELSE <<>>
  /\ Return
  /\ UNCHANGED <<pairVars, locVars,
                 kwargs, run, isdir, driver, areaIdx, page,
                 company_count, row_count, cur, strategy, k, feed, now, slept,
                 errKind, requested, written, prev>>

\* The program is started again with the same arguments: a new process, the
\* same file system, the same feed.
NextRun ==
  /\ pc = "exited"
  /\ run < MaxRuns
  /\ run' = run + 1
  /\ pc' = "main"
  /\ exitStatus' = -1
  /\ driver' = "none"
  /\ areaIdx' = 1
  /\ page' = 1
  /\ company_count' = 0
  /\ row_count' = 0
  /\ cur' = EmptyPage
  /\ strategy' = "none"
  /\ k' = 1
  /\ now' = now + 1
  /\ slept' = 0
  /\ errKind' = "none"
  /\ requested' = <<>>
  /\ written' = <<>>
  /\ prev' = [ended |-> TRUE, ok |-> (exitStatus = 0 /\ errKind = "none"),
              isfile |-> isfile, rows |-> rows, start |-> now + 1]
  /\ UNCHANGED <<pairVars, locVars,
                 kwargs, isfile, rows, isdir, feed>>

Next ==
  \/ Main
  \/ SetUpRequests
  \/ SetUpSelenium
  \/ WriteHeader
  \/ FetchRequests
  \/ FetchSelenium
  \/ ExtractElement
  \/ EndLoop
  \/ Decide
  \/ TearDownRequests
  \/ TearDownSelenium
  \/ OnError

\* One run of the program, from any session arguments.
Spec == Init /\ [][Next]_vars

\* Successive runs of the program with the same arguments against the same
\* feed; every configured area has the same name.
InitRerun ==
  /\ Init
  /\ ~TwoNames(kwargs.areas)

NextRerun ==
  \/ Next
  \/ NextRun

SpecRerun == InitRerun /\ [][NextRerun]_vars

\* One run of the program that is constructed (a valid backend, every key
\* given), every configured area having the same name.  The process is never
\* suspended for ever: a step that is possible is taken.
InitFair ==
  /\ Init
  /\ ~TwoNames(kwargs.areas)
  /\ creator # "ValueError"
  /\ ~InitRaises(kwargs)

SpecFair == InitFair /\ [][Next]_vars /\ WF_vars(Next)

\* ------------------------------------------------ two runs side by side
\* Two processes of the program run at once, each with its own arguments
\* (backend, locator) and its own output path; the working directory, and so
\* the fixture directory 'scraping_tp/static/html', is the same.  Nothing
\* fails but what the other process causes.  A step is one access to the
\* fixture directory together with the private work around it.
PairPages == 2     \* pages of the one area each of the two runs harvests

\* Records on page p of the feed both runs harvest: full pages, then a short one.
PairFeed(p) == IF p < PairPages THEN PER_PAGE ELSE 1

RECURSIVE PairRowsUpTo(_)
PairRowsUpTo(p) == IF p = 0 THEN 0 ELSE PairRowsUpTo(p - 1) + PairFeed(p)

\* Rows of the artifact of a run that runs alone: the header and every record.
AloneRows == 1 + PairRowsUpTo(PairPages)

ProcInit(lib, local) ==
  [lib |-> lib, local |-> local, pc |-> "setUp", isfile |-> FALSE, nrows |-> 0,
   page |-> 1, driver |-> "none", err |-> "none"]

\* No run is in progress in this model.
IdleKwargs ==
  [lib |-> "requests", browser |-> "chrome", areas |-> <<>>, interval |-> TRUE,
   local |-> FALSE, retry |-> 3]

InitPair ==
  /\ InitRun
  /\ kwargs = IdleKwargs
  /\ ~isfile
  /\ NoLoc
  /\ sharedDir = FALSE
  /\ \E l1 \in {"requests", "selenium"}, l2 \in {"requests", "selenium"},
        f1 \in BOOLEAN, f2 \in BOOLEAN :
       procs = <<ProcInit(l1, f1), ProcInit(l2, f2)>>

PairRaise(p, kind) ==
  procs' = [procs EXCEPT ![p].pc = "on_error", ![p].err = kind]

\* _setUp of either creator: (start the driver,) remove the own artifact,
\* unpack the fixtures when the locator is the local one.
PairSetUp(p) ==
  /\ procs[p].pc = "setUp"
  /\ procs' = [procs EXCEPT ![p].pc = "header",
                            ![p].driver = IF procs[p].lib = "selenium"
                                            THEN "open" ELSE "none",
                            ![p].isfile = FALSE,
                            ![p].nrows = 0]
  /\ sharedDir' = (sharedDir \/ procs[p].local)
  /\ UNCHANGED <<runVars, locVars>>

\* The header write of _write_csv, to the own artifact.
PairWriteHeader(p) ==
  /\ procs[p].pc = "header"
  /\ procs' = [procs EXCEPT ![p].pc = "fetch", ![p].isfile = TRUE,
                            ![p].nrows = 1, ![p].page = 1]
  /\ UNCHANGED <<sharedDir, runVars, locVars>>

\* One pass of the while loop: with the local locator the page is read from
\* the fixture directory (the read fails when the directory is gone), its
\* rows are appended to the own artifact, and the page is counted.
PairPage(p) ==
  /\ procs[p].pc = "fetch"
  /\ IF procs[p].local /\ ~sharedDir
       THEN PairRaise(p, "fetch")
       ELSE LET n == PairFeed(procs[p].page)
                short == IsShortPage(n, n)
            IN procs' = [procs EXCEPT
                 ![p].nrows = @ + n,
                 ![p].page = IF short THEN PageAfterAreaDone(@) ELSE @ + 1,
                 ![p].pc = IF short THEN "tearDown" ELSE "fetch"]
  /\ UNCHANGED <<sharedDir, runVars, locVars>>

\* _tearDown, 'if os.path.isdir(...)'.
PairTearDownIsDir(p) ==
  /\ procs[p].pc = "tearDown"
  /\ procs' = [procs EXCEPT ![p].pc = IF sharedDir THEN "rmtree" ELSE "close"]
  /\ UNCHANGED <<sharedDir, runVars, locVars>>

\* _tearDown, 'shutil.rmtree(...)': FileNotFoundError when the directory
\* has been removed since the test.
PairRmtree(p) ==
  /\ procs[p].pc = "rmtree"
  /\ IF sharedDir
       THEN /\ sharedDir' = FALSE
            /\ procs' = [procs EXCEPT ![p].pc = "close"]
       ELSE /\ PairRaise(p, "teardown")
            /\ UNCHANGED sharedDir
  /\ UNCHANGED <<runVars, locVars>>

\* The end of _tearDown (driver.close(), driver.quit() in the selenium
\* creator), and of the process.
PairClose(p) ==
  /\ procs[p].pc = "close"
  /\ procs' = [procs EXCEPT ![p].pc = "exited",
                            ![p].driver = IF procs[p].lib = "selenium"
                                            THEN "closed" ELSE "none"]
  /\ UNCHANGED <<sharedDir, runVars, locVars>>

\* The except branch of create(), and the end of the process.
PairOnError(p) ==
  /\ procs[p].pc = "on_error"
  /\ LET kept == IsFileAfterOnError(procs[p].isfile)
     IN procs' = [procs EXCEPT ![p].pc = "exited",
                               ![p].isfile = kept,
                               ![p].nrows = IF kept THEN @ ELSE 0]
  /\ UNCHANGED <<sharedDir, runVars, locVars>>

NextPair ==
  \E p \in 1..2 :
    \/ PairSetUp(p)
    \/ PairWriteHeader(p)
    \/ PairPage(p)
    \/ PairTearDownIsDir(p)
    \/ PairRmtree(p)
    \/ PairClose(p)
    \/ PairOnError(p)

\* Two runs with different output paths, in any interleaving.
SpecPair == InitPair /\ [][NextPair]_vars

\* ------------------------------------------- the local locator's file name
\* Strings are sequences of one-character strings.
NameLen == 3       \* longest base file name
LocPages == 3      \* pages resolved

NameChars == {"d", "x", "_", "."}

\* The directory of the base locator; urlparse(uri).path is the whole of it.
Dir == <<"/", "d", "/">>

FileNames == SeqsUpTo(NameChars, NameLen) \ {<<>>}

LastIndexOf(str, c) ==
  LET at == {i \in DOMAIN str : str[i] = c}
  IN IF at = {} THEN 0 ELSE CHOOSE i \in at : \A j \in at : j <= i

\* os.path.basename
basename(path) == SubSeq(path, LastIndexOf(path, "/") + 1, Len(path))

\* os.path.splitext of a name without separator: the extension starts at the
\* last dot, unless only dots precede it.
splitext(name) ==
  LET dot == LastIndexOf(name, ".")
  IN IF dot > 0 /\ \E i \in 1..(dot - 1) : name[i] # "."
       THEN <<SubSeq(name, 1, dot - 1), SubSeq(name, dot, Len(name))>>
       ELSE <<name, <<>>>>

\* str.split('_')[0]
SplitFirst(str) ==
  LET at == {i \in DOMAIN str : str[i] = "_"}
  IN IF at = {} THEN str
     ELSE SubSeq(str, 1, (CHOOSE i \in at : \A j \in at : i <= j) - 1)

Digits == <<"0", "1", "2", "3", "4", "5", "6", "7", "8", "9">>

\* str(n).zfill(2), n < 100
zfill2(n) == <<Digits[(n \div 10) + 1], Digits[(n % 10) + 1]>>

\* Mutant: the page token is the number of pages skipped.
PageTokenFromZero(fp) == zfill2(fp \div PER_PAGE)

\* str(int(from_param / 20) + 1).zfill(2)
PageToken(fp) == zfill2((fp \div 20) + 1)

\* str.replace(old, new): every occurrence, left to right.
RECURSIVE replace(_, _, _)
replace(str, old, new) ==
  IF old = <<>>
    THEN IF str = <<>> THEN new
         ELSE new \o <<Head(str)>> \o replace(Tail(str), old, new)
  ELSE IF Len(str) < Len(old) THEN str
  ELSE IF SubSeq(str, 1, Len(old)) = old
    THEN new \o replace(SubSeq(str, Len(old) + 1, Len(str)), old, new)
  ELSE <<Head(str)>> \o replace(Tail(str), old, new)

\* The three lines both resolutions share: basename, splitext, and the name
\* with the page token put in place of the original one.
Resolve(uri, fp) ==
  LET original_filename == basename(uri)
      parts == splitext(original_filename)
      filename == SplitFirst(parts[1]) \o <<"_">> \o PageToken(fp) \o parts[2]
  IN replace(uri, original_filename, filename)

\* CsvCreator._search_url with a local uri.
search_url(uri, fp) == Resolve(uri, fp)

\* The locator RequestsCsvCreator.__beautiful_soup_instance reads, url being
\* local: resolved again 'if from_param', else url itself.
target_url(url, fp) == IF fp # 0 THEN Resolve(url, fp) ELSE url

InitLoc ==
  /\ InitRun
  /\ kwargs = IdleKwargs
  /\ ~isfile
  /\ NoPair
  /\ \E name \in FileNames, q \in 1..LocPages :
       loc = [stage |-> "base", uri |-> Dir \o name, p |-> q,
              url |-> <<>>, target |-> <<>>]

SearchUrl ==
  /\ loc.stage = "base"
  /\ loc' = [loc EXCEPT !.stage = "url",
                        !.url = search_url(loc.uri, from_param(loc.p))]
  /\ UNCHANGED <<runVars, pairVars>>

BeautifulSoupInstance ==
  /\ loc.stage = "url"
  /\ loc' = [loc EXCEPT !.stage = "target",
                        !.target = target_url(loc.url, from_param(loc.p))]
  /\ UNCHANGED <<runVars, pairVars>>

NextLoc ==
  \/ SearchUrl
  \/ BeautifulSoupInstance

\* The page files of every base file name, as the requests creator reads them.
SpecLoc == InitLoc /\ [][NextLoc]_vars

\* ================================================================= claims
Last(q) == q[Len(q)]

\* The content the feed served for a request of this run.
FeedAt(a, p) == IF p > MaxPage THEN EmptyPage ELSE feed[<<a, p>>]

\* Number of rows appended for page p of area occurrence i.
PageRows(i, p) ==
  Cardinality({j \in DOMAIN written : written[j][1] = i /\ written[j][2] = p})

\* create() returned without having caught an exception.
Succeeded == pc = "exited" /\ exitStatus = 0 /\ errKind = "none"
\* create() returned after having caught one.
Failed == pc = "exited" /\ errKind # "none"

\* The file at the output path is the one this run's _write_csv opened.
ArtifactOfRun ==
  /\ isfile
  /\ rows # <<>>
  /\ pc \in {"fetch", "extract", "decide", "tearDown", "on_error", "exited"}
  /\ exitStatus # 1
  /\ errKind \notin {"config", "setup"}

\* The rows a state predicate looks at: all of them whenever a page has just
\* been extracted or the run is over, and the one just appended otherwise
\* (rows are appended one at a time, so every row is looked at when it is
\* the last, and all rows again at the end of every page).
PageEnd == pc \in {"decide", "tearDown"} \/ Succeeded

RowsToCheck ==
  IF PageEnd THEN DOMAIN written
  ELSE IF written = <<>> THEN {} ELSE {Len(written)}

\* The count kept with each request is the number of rows of its page.
CountsMatch ==
  /\ \A j \in RowsToCheck : \E i \in DOMAIN requested :
       /\ requested[i][1] = written[j][1]
       /\ requested[i][2] = written[j][2]
  /\ PageEnd => \A i \in DOMAIN requested :
       requested[i][3] = PageRows(requested[i][1], requested[i][2])

\* ---- C1.  Whatever the point of the run at which create() catches an
\* exception (setup, header write, a fetch, an extraction, an append,
\* teardown), from then on no page is requested and no row is appended, and
\* when create() has returned the artifact does not exist; an artifact that
\* exists when create() has returned holds the rows of every area.
C1_NoPartialArtifact ==
  /\ [](Failed => ~isfile)
  /\ []((pc = "exited" /\ exitStatus = 0 /\ isfile) =>
          /\ errKind = "none"
          /\ areaIdx = Len(kwargs.areas) + 1
          /\ \A i \in 1..Len(kwargs.areas) : \E j \in DOMAIN requested :
               requested[j][1] = i /\ requested[j][3] < PER_PAGE)
  /\ [][errKind # "none" =>
          /\ requested' = requested
          /\ written' = written
          /\ rows' = rows \/ rows' = <<>>]_vars

\* An append failed in the second area, after rows of both areas had been
\* written, and create() has returned.
C1_Witness ==
  /\ Failed
  /\ errKind = "sink"
  /\ areaIdx = 2
  /\ \E j \in DOMAIN written : written[j][1] = 1
  /\ \E j \in DOMAIN written : written[j][1] = 2
  /\ ~isfile

\* ---- C2.  Pagination termination law, on both backends: a page that yields
\* exactly PER_PAGE rows is followed by the request of the next page of the
\* same area; a page that yields fewer is followed by no request for that
\* area: page is 1 and company_count 0 again and the next request, if any, is
\* page 1 of the next area.  Only the rows of that page count.
C2_PaginationLaw ==
  /\ CountsMatch
  /\ \A i \in 1..(Len(requested) - 1) :
       LET r == requested[i]
           nx == requested[i + 1]
       IN /\ r[3] = PER_PAGE => (nx[1] = r[1] /\ nx[2] = r[2] + 1)
          /\ r[3] < PER_PAGE => (nx[1] = r[1] + 1 /\ nx[2] = 1)
  /\ (pc = "fetch" /\ requested # <<>>) =>
       LET r == Last(requested)
       IN /\ r[3] = PER_PAGE => areaIdx = r[1] /\ page = r[2] + 1
          /\ r[3] < PER_PAGE => areaIdx = r[1] + 1 /\ page = 1 /\ company_count = 0
  /\ ((pc = "tearDown" \/ Succeeded) /\ requested # <<>>) =>
       /\ Last(requested)[3] < PER_PAGE
       /\ Last(requested)[1] = Len(kwargs.areas)
       /\ page = 1
       /\ company_count = 0

\* A full page was followed by page 2 of the same area, and the short page 2
\* (the area's running count being above PER_PAGE) by page 1 of the next.
C2_Witness ==
  /\ Len(requested) >= 3
  /\ requested[1][1] = 1 /\ requested[1][2] = 1
  /\ requested[1][3] = PER_PAGE
  /\ requested[2][1] = 1 /\ requested[2][2] = 2
  /\ requested[2][3] \in 1..(PER_PAGE - 1)
  /\ requested[3][1] = 2 /\ requested[3][2] = 1
  /\ PageRows(1, 1) = PER_PAGE

\* ---- C3.  The exit status of the process is non-zero whenever create()
\* caught a fetch, extraction or sink error, and zero exactly when all areas
\* were completed.
C3_ExitStatusReflectsOutcome ==
  (pc = "exited" /\ creator # "ValueError" /\ ~InitRaises(kwargs)) =>
    /\ errKind # "none" => exitStatus # 0
    /\ exitStatus = 0 <=> (errKind = "none" /\ areaIdx = Len(kwargs.areas) + 1)

\* ---- C4.  With the selenium backend no run ends with the browsing session
\* that _setUp created still open.
C4_SessionClosedOnEveryPath ==
  (pc = "exited" /\ creator = "SeleniumCsvCreator") => driver # "open"

\* ---- C5.  No row whose company-name column is empty is ever in the sink.
C5_NoEmptyCompanyName ==
  \A i \in DOMAIN rows : rows[i][1] # ""

\* ---- C6.  Areas are processed in the configured order, one occurrence at
\* a time: the requests of an occurrence are its pages 1, 2, ... up to its
\* first short page, the next occurrence is requested only after that short
\* page, and the rows of the artifact are in the order of the requests:
\* every row of occurrence i before every row of occurrence i + 1, the rows
\* of an occurrence page by page, each row in the area column of its
\* occurrence.
OriginBefore(v, w) ==
  \/ v[1] < w[1]
  \/ v[1] = w[1] /\ v[2] < w[2]
  \/ v[1] = w[1] /\ v[2] = w[2] /\ v[3] = w[3] /\ v[4] < w[4]
  \/ v[1] = w[1] /\ v[2] = w[2] /\ v[3] = "top" /\ w[3] = "bottom"

C6_AreasInOrder ==
  /\ CountsMatch
  /\ requested # <<>> => (requested[1][1] = 1 /\ requested[1][2] = 1)
  /\ \A i \in 1..(Len(requested) - 1) :
       LET r == requested[i]
           nx == requested[i + 1]
       IN \/ nx[1] = r[1] /\ nx[2] = r[2] + 1 /\ r[3] >= PER_PAGE
          \/ nx[1] = r[1] + 1 /\ nx[2] = 1 /\ r[3] < PER_PAGE
  /\ \A j \in RowsToCheck : j > 1 => OriginBefore(written[j - 1], written[j])
  /\ ArtifactOfRun =>
       /\ Len(rows) = 1 + Len(written)
       /\ \A j \in RowsToCheck :
            /\ rows[j + 1][6] = kwargs.areas[written[j][1]]
            /\ rows[j + 1][2] = <<written[j][3], written[j][2], written[j][4]>>

\* Areas "a", "b": page 1 of the first gave PER_PAGE rows and its page 2 a few,
\* all of them in the artifact before the first row of the second area.
C6_Witness ==
  /\ kwargs.areas = <<"a", "b">>
  /\ ArtifactOfRun
  /\ PageRows(1, 1) = PER_PAGE
  /\ PageRows(1, 2) \in 1..(PER_PAGE - 1)
  /\ PageRows(2, 1) > 0
  /\ Len(rows) > 1 + PER_PAGE
  /\ rows[1 + PER_PAGE][6] = "a"
  /\ Last(rows)[6] = "b"

C8_EmptyPageIsNoError ==
  (errKind \in {"FetchTimeout", "extract"}) => cur # EmptyPage

\* ---- C9.  The factory builds the requests creator for lib = 'requests' and
\* the selenium creator for lib = 'selenium'; a run in which create() catches
\* no exception ends with the artifact at the output path: the 7-column
\* header, then one 7-column row for every record of every page requested,
\* every configured area having been requested.
Extracted(c) ==
  IF kwargs.lib = "requests" /\ c.json THEN c.jn ELSE c.top + c.bottom

C9_CompleteArtifact ==
  /\ (pc # "main" /\ exitStatus # 1) =>
       /\ kwargs.lib = "requests" => creator = "RequestsCsvCreator"
       /\ kwargs.lib = "selenium" => creator = "SeleniumCsvCreator"
       /\ \A j \in RowsToCheck :
            written[j][3] \in IF kwargs.lib = "requests"
                                THEN {"json", "html"} ELSE {"top", "bottom"}
  /\ Succeeded =>
       /\ isfile
       /\ rows # <<>>
       /\ rows[1] = CSV_HEADER
       /\ \A i \in DOMAIN rows : Len(rows[i]) = 7
       /\ Len(rows) = 1 + Len(written)
       /\ \A i \in 1..Len(kwargs.areas) : \E j \in DOMAIN requested :
            requested[j][1] = i /\ requested[j][2] = 1
       /\ \A j \in DOMAIN requested :
            PageRows(requested[j][1], requested[j][2]) =
              Extracted(FeedAt(kwargs.areas[requested[j][1]], requested[j][2]))
       /\ \A j \in DOMAIN written :
            /\ rows[j + 1][1] \in {"N", ""}
            /\ rows[j + 1][5] = "kw"
            /\ rows[j + 1][6] = kwargs.areas[written[j][1]]
            /\ rows[j + 1][7] = now

\* The requests creator has finished a run over two areas and more than a
\* page of records.
C9_Witness ==
  /\ Succeeded
  /\ creator = "RequestsCsvCreator"
  /\ Len(kwargs.areas) = 2
  /\ Len(rows) > 1 + PER_PAGE

\* ---- C10.  Successive runs with the same arguments against the same feed:
\* a run in which create() catches no exception leaves the header once,
\* followed by rows of this run only, whether the output path held an
\* artifact or none when it started; when the run before it succeeded as
\* well, the two artifacts are equal apart from the time column.
StripTime(rs) == [i \in DOMAIN rs |-> SubSeq(rs[i], 1, 6)]

C10_RerunReplacesArtifact ==
  Succeeded =>
    /\ isfile
    /\ rows # <<>>
    /\ rows[1] = CSV_HEADER
    /\ Len(rows) = 1 + Len(written)
    /\ \A i \in 2..Len(rows) : rows[i] # CSV_HEADER /\ rows[i][7] = now
    /\ (run > 1 /\ prev.ok) =>
         /\ prev.isfile
         /\ StripTime(rows) = StripTime(prev.rows)

\* The second run has succeeded after a first run that left an artifact with
\* more than a page of rows.
C10_Witness ==
  /\ Succeeded
  /\ run = 2
  /\ prev.ok
  /\ Len(prev.rows) > 1 + PER_PAGE
  /\ rows # prev.rows

\* ---- C11.  Two runs with different output paths that execute at the same
\* time share no mutable state: in every interleaving each of them ends as
\* it ends alone, without an exception caught and with the artifact of
\* AloneRows rows, also when the locator is the local one.
C11_ConcurrentRunsIndependent ==
  \A p \in DOMAIN procs :
    procs[p].pc = "exited" =>
      /\ procs[p].err = "none"
      /\ procs[p].isfile
      /\ procs[p].nrows = AloneRows

\* ---- C12.  Pacing, on both backends: every page whose fetch and
\* extraction returned is followed by one pause of the pacing interval, the
\* page being full or the last of its area, before the next request and
\* before the end of the run; so between two consecutive page requests of a
\* run there is at least one pause.  (The selenium creator pauses once more,
\* between the wait and the reading of each page.)
PausesPerPage == IF creator = "SeleniumCsvCreator" THEN 2 ELSE 1

C12_PauseAfterEveryPage ==
  /\ []((errKind = "none" /\ (pc \in {"fetch", "tearDown"} \/ Succeeded)) =>
          slept = PausesPerPage * Len(requested))
  /\ [](pc \in {"extract", "decide"} =>
          slept = PausesPerPage * Len(requested) - 1)
  /\ [][pc = "decide" => slept' = slept + 1]_vars
  /\ [][(requested # <<>> /\ Len(requested') > Len(requested)) =>
          slept >= PausesPerPage * (Len(requested) - 1) + 1]_vars

\* The requests creator is done after three pages of two areas: a full page
\* and two pages that ended an area, a pause after each.
C12_Witness ==
  /\ creator = "RequestsCsvCreator"
  /\ pc = "tearDown"
  /\ Len(kwargs.areas) = 2
  /\ Len(requested) = 3
  /\ requested[1][3] = PER_PAGE
  /\ slept = 3

\* ---- C13.  Within an area occurrence the requests carry the pages 1, 2,
\* 3, ... without gap or repeat, page p with the offset (p - 1) * 20; an
\* occurrence once left is not requested again, so no (occurrence, page) is
\* requested twice; and once a fetch or an extraction has failed the run
\* requests nothing more: the failed page is the last request, whatever
\* retry count was given.
C13_PagesInOrderNeverRetried ==
  /\ \A i \in DOMAIN requested :
       /\ requested[i][4] = (requested[i][2] - 1) * 20
       /\ requested[i][2] >= 1
  /\ requested # <<>> => requested[1][2] = 1
  /\ \A i \in 1..(Len(requested) - 1) :
       LET r == requested[i]
           nx == requested[i + 1]
       IN IF nx[1] = r[1] THEN nx[2] = r[2] + 1
          ELSE nx[1] > r[1] /\ nx[2] = 1
  /\ errKind \in {"fetch", "FetchTimeout", "extract"} =>
       /\ pc \in {"on_error", "exited"}
       /\ requested # <<>>
       /\ Last(requested)[1] = areaIdx
       /\ Last(requested)[2] = page

\* With --retry 3 the fetch of page 2 failed after a full page 1: the run
\* is over and page 2 was requested once.
C13_Witness ==
  /\ kwargs.retry = 3
  /\ errKind = "fetch"
  /\ pc = "exited"
  /\ Len(requested) = 2
  /\ requested[2][2] = 2
  /\ requested[2][4] = PER_PAGE

\* ---- C14.  Records are appended one at a time, each a complete write: in
\* every state in which the artifact of the run exists it is the header and
\* exactly one complete row for each record appended so far; rows are not
\* held back to the end of the page, so when entry k of a page makes the
\* extraction raise, the k - 1 records before it are in the artifact when
\* the failure handler starts.
C14_RowsAppendedOneByOne ==
  /\ ArtifactOfRun =>
       /\ Len(rows) = 1 + Len(written)
       /\ \A j \in RowsToCheck : Len(rows[j + 1]) = Len(CSV_HEADER)
  /\ (pc = "on_error" /\ errKind = "extract") =>
       /\ isfile
       /\ Last(requested)[3] = k - 1
       /\ Len(rows) >= 1 + (k - 1)
       /\ k > 1 =>
            /\ Last(written) = <<areaIdx, page, strategy, k - 1>>
            /\ Last(rows)[2] = <<strategy, page, k - 1>>

\* Entry BadPos of a block has made the extraction raise: the failure
\* handler is about to run and the entries before it are in the artifact.
C14_Witness ==
  /\ pc = "on_error"
  /\ errKind = "extract"
  /\ strategy = "json"
  /\ k = BadPos
  /\ isfile
  /\ Len(rows) = BadPos
  /\ Last(rows)[2] = <<"json", 1, BadPos - 1>>

RECURSIVE RowsOfOccurrence(_, _)
RowsOfOccurrence(i, n) ==
  IF n = 0 THEN 0
  ELSE RowsOfOccurrence(i, n - 1)
         + (IF requested[n][1] = i THEN requested[n][3] ELSE 0)

C16_AreaProgress ==
  /\ (pc = "fetch" /\ (requested = <<>> \/ Last(requested)[1] # areaIdx)) =>
       (page = 1 /\ company_count = 0)
  /\ \A i \in DOMAIN requested :
       (i = 1 \/ requested[i - 1][1] # requested[i][1]) => requested[i][2] = 1
  /\ pc = "fetch" =>
       company_count = RowsOfOccurrence(areaIdx, Len(requested))
  /\ pc = "decide" =>
       company_count + row_count = RowsOfOccurrence(areaIdx, Len(requested))

\* The second area is done on its page 2: the count reported is that of its
\* own two pages, the rows of the first area not among them.
C16_Witness ==
  /\ pc = "decide"
  /\ areaIdx = 2
  /\ page = 2
  /\ company_count = PER_PAGE
  /\ row_count \in 1..(PER_PAGE - 1)
  /\ RowsOfOccurrence(1, Len(requested)) > 0

\* ---- C17.  Liveness of the harvest loop.  The feed serves a short page
\* for every area after finitely many full ones (at the latest page
\* MaxPage + 1, which holds nothing); then a run in which no exception is
\* caught leaves the loop over the areas and reaches _tearDown, and a run
\* that ended well has done every area occurrence exactly once, on the
\* first short page of that occurrence.  The loop itself has no maximum
\* page count: the page number stops where the feed's short page is.
AreaDoneAt(i) ==
  {j \in DOMAIN requested : requested[j][1] = i /\ requested[j][3] < PER_PAGE}

C17_HarvestTerminates ==
  /\ (pc = "header") ~> (errKind # "none" \/ pc = "tearDown")
  /\ (pc = "tearDown") ~> (pc = "exited")
  /\ [](pc = "fetch" => page <= MaxPage + 1)
  /\ [](Succeeded =>
          \A i \in 1..Len(kwargs.areas) :
            /\ Cardinality(AreaDoneAt(i)) = 1
            /\ \A j \in AreaDoneAt(i) :
                 j = Len(requested) \/ requested[j + 1][1] = i + 1)

\* A run over two areas ended well after a full and a short page of each.
C17_Witness ==
  /\ Succeeded
  /\ Len(kwargs.areas) = 2
  /\ Len(requested) = 4
  /\ requested[1][3] = PER_PAGE
  /\ requested[3][3] = PER_PAGE
  /\ AreaDoneAt(2) = {4}

\* ---- C18.  An invalid selection is rejected without side effect on the
\* sink: an unknown backend when the creator is constructed, an unknown
\* browser when the selenium creator is set up, before any page is requested
\* and any artifact opened; and no step of such a run changes the file at
\* the output path, so an artifact of an earlier run is left as it was.
C18_RejectedRunLeavesSink ==
  /\ []((creator = "ValueError" \/ errKind = "config") =>
          (requested = <<>> /\ written = <<>> /\ pc \notin {"header", "fetch"}))
  /\ [][(creator = "ValueError" \/ errKind = "config" \/ errKind' = "config") =>
          (isfile' = isfile /\ rows' = rows)]_vars

\* ---- C19.  With a local base locator, page p is read from the file named
\* by the part of the base name (extension set aside) before its first '_',
\* then '_', then p in two digits, then the extension of the base name;
\* _search_url computes that name, and the second resolution, made in the
\* fetch for p > 1, names the same file again.
IsPageFileName(name, base, q) ==
  LET ext == splitext(base)[2]
      stem == splitext(base)[1]
      pre == SubSeq(name, 1, Len(name) - 3 - Len(ext))
  IN /\ Len(name) >= 3 + Len(ext)
     /\ SubSeq(name, Len(name) - Len(ext) + 1, Len(name)) = ext
     /\ SubSeq(name, Len(pre) + 1, Len(pre) + 3)
          = <<"_", Digits[(q \div 10) + 1], Digits[(q % 10) + 1]>>
     /\ \A i \in DOMAIN pre : pre[i] # "_" /\ pre[i] = stem[i]
     /\ Len(pre) <= Len(stem)
     /\ Len(pre) < Len(stem) => stem[Len(pre) + 1] = "_"

C19_LocalPageFile ==
  /\ loc.stage \in {"url", "target"} =>
       IsPageFileName(basename(loc.url), basename(loc.uri), loc.p)
  /\ loc.stage = "target" =>
       /\ loc.target = loc.url
       /\ IsPageFileName(basename(loc.target), basename(loc.uri), loc.p)

\* Page 2 of the base name "x.d" has been resolved twice: "x_02.d".
C19_Witness ==
  /\ loc.stage = "target"
  /\ loc.p = 2
  /\ loc.uri = Dir \o <<"x", ".", "d">>
  /\ loc.target = Dir \o <<"x", "_", "0", "2", ".", "d">>

\* ---- C20.  A run started from the command line with a valid backend
\* selection is constructed: its arguments hold every key the creator
\* reads, so no such run ends in main() with an exception before create().
C20_CliRunIsConstructed ==
  FromCli(kwargs) => ~(pc = "exited" /\ exitStatus = 1)

====
